---- MODULE Spec2Model ----
(***************************************************************************)
(* A model of server.py: a thread-per-connection HTTP/1.1 server with a    *)
(* file store rooted at a base directory and gzip negotiation.             *)
(*                                                                         *)
(* Text is a sequence of characters and a byte string is a sequence of     *)
(* bytes.  An ASCII character and its byte are the same one-character      *)
(* string; a byte above 0x7f is named "xHH" and a code point above U+007F  *)
(* is named "U+HHHH", so that decoding and encoding are real conversions.  *)
(***************************************************************************)
EXTENDS Integers, Sequences, FiniteSets, TLC

(***************************************************************************)
(* Python str / bytes primitives.  A value that the code binds once and    *)
(* uses several times is passed on as an argument of a further operator.   *)
(***************************************************************************)

\* s[n:] and s[:n] for 0 <= n (Python clamps the index to the length)
Drop(s, n) == IF n >= Len(s) THEN <<>> ELSE SubSeq(s, n + 1, Len(s))

Take(s, n) == IF n >= Len(s) THEN s ELSE SubSeq(s, 1, n)

\* s[:n] for any integer n: a negative n counts from the end
SliceTo(s, n) ==
    IF n >= 0 THEN Take(s, n)
    ELSE IF Len(s) + n <= 0 THEN <<>> ELSE SubSeq(s, 1, Len(s) + n)

\* s.startswith(p)
startswith(s, p) == Len(p) <= Len(s) /\ SubSeq(s, 1, Len(p)) = p

\* the positions at which sub occurs in s
Occurrences(s, sub) ==
    {i \in 1..(Len(s) - Len(sub) + 1) : SubSeq(s, i, i + Len(sub) - 1) = sub}

FirstOf(S) == IF S = {} THEN 0 ELSE CHOOSE i \in S : \A j \in S : i <= j

LastOf(S) == IF S = {} THEN 0 ELSE CHOOSE i \in S : \A j \in S : i >= j

\* s.find(sub) + 1: the first position where sub occurs in s, 0 when it does not
find(s, sub) == FirstOf(Occurrences(s, sub))

\* s.rfind(sub) + 1
rfind(s, sub) == LastOf(Occurrences(s, sub))

\* sub in s
contains(s, sub) == Occurrences(s, sub) # {}

\* s cut around the n characters at position i; s alone when i is 0
CutAt(s, i, n) == IF i = 0 THEN <<s>> ELSE <<SubSeq(s, 1, i - 1), Drop(s, i + n - 1)>>

\* s.split(sep, 1)
split1(s, sep) == CutAt(s, find(s, sep), Len(sep))

\* s.split(sep), from s.split(sep, 1)
RECURSIVE split_rest(_, _)
split_rest(cut, sep) ==
    IF Len(cut) = 1 THEN cut ELSE <<cut[1]>> \o split_rest(split1(cut[2], sep), sep)

split(s, sep) == split_rest(split1(s, sep), sep)

\* the characters str.strip() and str.split() treat as whitespace
Whitespace == {" ", "\t", "\n", "\r"}

RECURSIVE lstrip(_)
lstrip(s) == IF s # <<>> /\ Head(s) \in Whitespace THEN lstrip(Tail(s)) ELSE s

RECURSIVE rstrip(_)
rstrip(s) ==
    IF s # <<>> /\ s[Len(s)] \in Whitespace THEN rstrip(SubSeq(s, 1, Len(s) - 1)) ELSE s

\* s.strip()
strip(s) == rstrip(lstrip(s))

\* s.rstrip('/')
RECURSIVE rstrip_slash(_)
rstrip_slash(s) ==
    IF s # <<>> /\ s[Len(s)] = "/" THEN rstrip_slash(SubSeq(s, 1, Len(s) - 1)) ELSE s

\* s.split(): the maximal runs of non-whitespace characters; t has no leading
\* whitespace and e is the position of its first whitespace character
RECURSIVE ws_tokens(_)
RECURSIVE ws_cut(_, _)
ws_cut(t, e) ==
    IF e = 0 THEN <<t>> ELSE <<SubSeq(t, 1, e - 1)>> \o ws_tokens(lstrip(Drop(t, e - 1)))

ws_tokens(t) ==
    IF t = <<>> THEN <<>> ELSE ws_cut(t, FirstOf({i \in 1..Len(t) : t[i] \in Whitespace}))

split_ws(s) == ws_tokens(lstrip(s))

UpperCase == <<"A","B","C","D","E","F","G","H","I","J","K","L","M","N","O","P","Q","R","S","T","U","V","W","X","Y","Z">>

LowerCase == <<"a","b","c","d","e","f","g","h","i","j","k","l","m","n","o","p","q","r","s","t","u","v","w","x","y","z">>

lower_char(ch) ==
    IF \E k \in 1..26 : UpperCase[k] = ch
    THEN LowerCase[CHOOSE k \in 1..26 : UpperCase[k] = ch]
    ELSE ch

\* s.lower()
lower(s) == IF s = <<>> THEN <<>> ELSE [i \in 1..Len(s) |-> lower_char(s[i])]

\* sep.join(parts)
RECURSIVE join(_, _)
join(sep, parts) ==
    IF parts = <<>> THEN <<>>
    ELSE IF Len(parts) = 1 THEN parts[1]
    ELSE parts[1] \o sep \o join(sep, Tail(parts))

Digits == <<"0","1","2","3","4","5","6","7","8","9">>

DigitValue(ch) == (CHOOSE k \in 1..10 : Digits[k] = ch) - 1

IsDigit(ch) == \E k \in 1..10 : Digits[k] = ch

RECURSIVE DecimalValue(_)
DecimalValue(s) ==
    IF s = <<>> THEN 0
    ELSE 10 * DecimalValue(SubSeq(s, 1, Len(s) - 1)) + DigitValue(s[Len(s)])

\* int() of a sign and the characters after it: [ok |-> FALSE] stands for
\* ValueError
int_signed(sign, d) ==
    IF d # <<>> /\ \A i \in 1..Len(d) : IsDigit(d[i])
    THEN [ok |-> TRUE, value |-> IF sign = "-" THEN 0 - DecimalValue(d) ELSE DecimalValue(d)]
    ELSE [ok |-> FALSE, value |-> 0]

int_stripped(t) ==
    IF t # <<>> /\ t[1] \in {"+", "-"} THEN int_signed(t[1], Tail(t)) ELSE int_signed("+", t)

\* int(s)
int(s) == int_stripped(strip(s))

\* str(n) for n >= 0
RECURSIVE str(_)
str(n) == IF n < 10 THEN <<Digits[n + 1]>> ELSE str(n \div 10) \o <<Digits[(n % 10) + 1]>>

(***************************************************************************)
(* UTF-8: bytes.decode() and str.encode().  The alphabet holds the ASCII   *)
(* bytes, the two bytes of U+00E9 and the byte 0xff, which no UTF-8 text   *)
(* contains.                                                               *)
(***************************************************************************)
\* 0xc3 must be followed by 0xa9, 0xa9 must follow 0xc3, 0xff is never valid
valid_utf8(b) ==
    \A i \in 1..Len(b) :
        /\ b[i] # "xff"
        /\ b[i] = "xc3" => (i < Len(b) /\ b[i + 1] = "xa9")
        /\ b[i] = "xa9" => (i > 1 /\ b[i - 1] = "xc3")

NotContinuation(x) == x # "xa9"

\* the code points of the lead bytes of a valid byte string
code_points(leads) ==
    IF leads = <<>> THEN <<>>
    ELSE [i \in 1..Len(leads) |-> IF leads[i] = "xc3" THEN "U+00E9" ELSE leads[i]]

\* bytes.decode(): [ok |-> FALSE] stands for UnicodeDecodeError
decode(b) ==
    IF valid_utf8(b) THEN [ok |-> TRUE, text |-> code_points(SelectSeq(b, NotContinuation))]
    ELSE [ok |-> FALSE, text |-> <<>>]

\* str.encode(): U+00E9 becomes two bytes, every other character one
RECURSIVE encode(_)
encode(t) ==
    IF t = <<>> THEN <<>>
    ELSE IF Len(t) = 1 THEN (IF t[1] = "U+00E9" THEN <<"xc3", "xa9">> ELSE t)
    ELSE encode(SubSeq(t, 1, Len(t) \div 2)) \o encode(SubSeq(t, (Len(t) \div 2) + 1, Len(t)))

(***************************************************************************)
(* class HTTPRequest                                                       *)
(***************************************************************************)
CRLF == <<"\r","\n">>

\* the fields __init__ sets before it calls _parse
EmptyRequest == [method |-> <<>>, path |-> <<>>, headers |-> <<>>, body |-> <<>>]

\* dict.get(key, default) on a dict kept as a sequence of <<key, value>> pairs
\* with unique keys
dict_get(d, key, default) ==
    IF \E i \in 1..Len(d) : d[i][1] = key
    THEN d[CHOOSE i \in 1..Len(d) : d[i][1] = key][2]
    ELSE default

\* d[key] = value: an existing key keeps its place and takes the new value
dict_set(d, key, value) ==
    IF \E i \in 1..Len(d) : d[i][1] = key
    THEN [i \in 1..Len(d) |-> IF d[i][1] = key THEN <<key, value>> ELSE d[i]]
    ELSE Append(d, <<key, value>>)

\* the header assignment keeping the value a key already has
set_header_first_wins(headers, kv) ==
    IF \E i \in 1..Len(headers) : headers[i][1] = strip(lower(kv[1]))
    THEN headers
    ELSE Append(headers, <<strip(lower(kv[1])), strip(kv[2])>>)

\* self.headers[key.lower().strip()] = value.strip() for key, value =
\* line.split(':', 1)
set_header(headers, kv) == dict_set(headers, strip(lower(kv[1])), strip(kv[2]))

\* one turn of the loop over header_lines[1:]
header_line(headers, line) ==
    IF contains(line, <<":">>) THEN set_header(headers, split1(line, <<":">>)) ELSE headers

RECURSIVE parse_headers(_, _)
parse_headers(lines, headers) ==
    IF lines = <<>> THEN headers
    ELSE parse_headers(Tail(lines), header_line(headers, Head(lines)))

\* _parse taking the method and the path from the first two tokens, however
\* many there are
parse_first_two_tokens(first, lines, body) ==
    IF Len(first) < 2 THEN EmptyRequest
    ELSE [method |-> first[1],
          path |-> first[2],
          headers |-> parse_headers(lines, <<>>),
          body |-> encode(body)]

\* _parse from the unpacking of header_lines[0].split() on: when it raises,
\* nothing has been assigned and every field stays as __init__ set it
parse_first(first, lines, body) ==
    IF Len(first) # 3 THEN EmptyRequest
    ELSE [method |-> first[1],
          path |-> first[2],
          headers |-> parse_headers(lines, <<>>),
          body |-> encode(body)]

parse_lines(header_lines, body) ==
    parse_first(split_ws(header_lines[1]), Tail(header_lines), body)

\* _parse after the split on the first blank line (no blank line: no body)
parse_sections(parts) ==
    parse_lines(split(parts[1], CRLF), IF Len(parts) = 2 THEN parts[2] ELSE <<>>)

\* HTTPRequest(raw_request)
HTTPRequest(raw_request) == parse_sections(split1(raw_request, CRLF \o CRLF))

\* 'gzip' in encodings
\* gzip_in comparing the tokens without lower-casing them
gzip_in_case_sensitive(encodings) ==
    \E i \in 1..Len(encodings) : strip(encodings[i]) = <<"g","z","i","p">>

\* gzip_in looking for gzip anywhere inside a token
gzip_in_substring(encodings) ==
    \E i \in 1..Len(encodings) : contains(lower(encodings[i]), <<"g","z","i","p">>)

gzip_in(encodings) ==
    \E i \in 1..Len(encodings) : lower(strip(encodings[i])) = <<"g","z","i","p">>

\* HTTPRequest.accepts_gzip
accepts_gzip(request) ==
    gzip_in(split(dict_get(request.headers, <<"a","c","c","e","p","t","-","e","n","c","o","d","i","n","g">>, <<>>), <<",">>))

(***************************************************************************)
(* posixpath: pure functions of the path text                              *)
(***************************************************************************)
SEP == <<"/">>

\* os.path.join(a, b)
path_join(a, b) ==
    IF startswith(b, SEP) THEN b
    ELSE IF a = <<>> \/ a[Len(a)] = "/" THEN a \o b
    ELSE a \o SEP \o b

\* the loop of os.path.normpath over the components of an absolute path
RECURSIVE norm_comps(_, _)
norm_comps(comps, new_comps) ==
    IF comps = <<>> THEN new_comps
    ELSE IF Head(comps) = <<>> \/ Head(comps) = <<".">>
    THEN norm_comps(Tail(comps), new_comps)
    ELSE IF Head(comps) # <<".", ".">>
            \/ (new_comps # <<>> /\ new_comps[Len(new_comps)] = <<".", ".">>)
    THEN norm_comps(Tail(comps), Append(new_comps, Head(comps)))
    ELSE IF new_comps # <<>>
    THEN norm_comps(Tail(comps), SubSeq(new_comps, 1, Len(new_comps) - 1))
    ELSE norm_comps(Tail(comps), new_comps)

\* os.path.normpath(path) for a path that starts with '/': exactly two leading
\* slashes are kept, as POSIX allows
normpath(path) ==
    (IF startswith(path, <<"/", "/">>) /\ ~startswith(path, <<"/", "/", "/">>)
     THEN <<"/", "/">> ELSE SEP)
    \o join(SEP, norm_comps(split(path, SEP), <<>>))

\* os.path.abspath(path) for an absolute path (every path the server builds is
\* joined onto the absolute base directory)
abspath(path) == normpath(path)

\* os.path.split(p), from head = p[:i] and tail = p[i:]
split_head(head, tail) ==
    IF head # <<>> /\ rstrip_slash(head) # <<>>
    THEN <<rstrip_slash(head), tail>> ELSE <<head, tail>>

split_at(p, i) == split_head(Take(p, i), Drop(p, i))

path_split(p) == split_at(p, rfind(p, SEP))

\* os.path.dirname(p)
dirname(p) == path_split(p)[1]

(***************************************************************************)
(* The filesystem: dirs is the set of directories and files maps each     *)
(* regular file to its bytes; a node is the sequence of its component     *)
(* names from the root.  There are no symbolic links.                     *)
(***************************************************************************)
Root == <<>>

\* the kernel's walk of an absolute path: every component is looked up in a
\* directory; ok is FALSE for ENOENT / ENOTDIR on the way
RECURSIVE walk(_, _, _)
walk(fs, comps, cur) ==
    IF comps = <<>> THEN [ok |-> TRUE, node |-> cur]
    ELSE IF cur \notin fs.dirs THEN [ok |-> FALSE, node |-> cur]
    ELSE IF Head(comps) = <<>> \/ Head(comps) = <<".">> THEN walk(fs, Tail(comps), cur)
    ELSE IF Head(comps) = <<".", ".">>
    THEN walk(fs, Tail(comps), IF cur = Root THEN Root ELSE SubSeq(cur, 1, Len(cur) - 1))
    ELSE walk(fs, Tail(comps), Append(cur, Head(comps)))

Resolve(fs, p) == walk(fs, split(p, SEP), Root)

\* the node r names is a directory or a regular file
node_exists(fs, r) == r.ok /\ (r.node \in fs.dirs \/ r.node \in DOMAIN fs.files)

\* os.path.exists(p)
exists(fs, p) == node_exists(fs, Resolve(fs, p))

node_isdir(fs, r) == r.ok /\ r.node \in fs.dirs

\* os.path.isdir(p)
isdir(fs, p) == node_isdir(fs, Resolve(fs, p))

mkdir_at(fs, r) ==
    IF ~r.ok THEN [err |-> "OSError", fs |-> fs]
    ELSE IF node_exists(fs, r) THEN [err |-> "FileExistsError", fs |-> fs]
    ELSE [err |-> "", fs |-> [fs EXCEPT !.dirs = @ \cup {r.node}]]

\* os.mkdir(p): err is "" on success, "FileExistsError" or another "OSError"
mkdir(fs, p) == mkdir_at(fs, Resolve(fs, p))

\* makedirs: except OSError: if not exist_ok or not path.isdir(name): raise
mkdir_result(fs, name, made) ==
    IF made.err # "" /\ isdir(fs, name) THEN [err |-> "", fs |-> fs] ELSE made

\* makedirs: the final mkdir(name, mode) with exist_ok=True
makedirs_leaf(fs, name) == mkdir_result(fs, name, mkdir(fs, name))

\* makedirs after the recursive call returned sub: a FileExistsError of the
\* recursive call is passed over, any other error propagates
makedirs_after(sub, name, tail) ==
    IF sub.err = "OSError" THEN sub
    ELSE IF tail = <<".">> THEN [err |-> "", fs |-> sub.fs]
    ELSE makedirs_leaf(sub.fs, name)

\* os.makedirs(name, exist_ok=True), with ht = <<head, tail>>
RECURSIVE makedirs(_, _)
RECURSIVE makedirs_ht(_, _, _)
makedirs_ht(fs, name, ht) ==
    IF ht[1] # <<>> /\ ht[2] # <<>> /\ ~exists(fs, ht[1])
    THEN makedirs_after(makedirs(fs, ht[1]), name, ht[2])
    ELSE makedirs_leaf(fs, name)

\* makedirs: head, tail = path.split(name); if not tail: path.split(head)
makedirs_split(fs, name, s1) ==
    IF s1[2] = <<>> THEN makedirs_ht(fs, name, path_split(s1[1]))
    ELSE makedirs_ht(fs, name, s1)

makedirs(fs, name) == makedirs_split(fs, name, path_split(name))

\* an open for writing that creates the file but does not truncate it
open_wb_at_keeping(fs, r) ==
    IF r.ok /\ r.node \notin fs.dirs
    THEN [ok |-> TRUE, node |-> r.node,
          fs |-> IF r.node \in DOMAIN fs.files THEN fs
                 ELSE [fs EXCEPT !.files = (r.node :> <<>>) @@ @]]
    ELSE [ok |-> FALSE, node |-> r.node, fs |-> fs]

open_wb_at(fs, r) ==
    IF r.ok /\ r.node \notin fs.dirs
    THEN [ok |-> TRUE, node |-> r.node, fs |-> [fs EXCEPT !.files = (r.node :> <<>>) @@ @]]
    ELSE [ok |-> FALSE, node |-> r.node, fs |-> fs]

\* open(p, 'wb'): creates the file or truncates it to length zero
open_wb(fs, p) == open_wb_at(fs, Resolve(fs, p))

\* f.write(content) and the close that flushes it: one write at offset 0 of
\* the file the descriptor names, which leaves any bytes beyond it in place
fd_write(fs, node, content) ==
    [fs EXCEPT !.files[node] = content \o Drop(@, Len(content))]

open_rb_at(fs, r) ==
    IF r.ok /\ r.node \in DOMAIN fs.files
    THEN [ok |-> TRUE, content |-> fs.files[r.node]]
    ELSE [ok |-> FALSE, content |-> <<>>]

\* open(p, 'rb') and f.read()
open_rb(fs, p) == open_rb_at(fs, Resolve(fs, p))

(***************************************************************************)
(* class FileHandler                                                       *)
(***************************************************************************)
\* the --directory argument the server is started with
Directory == <<"/","b">>

\* FileHandler.__init__
base_dir == abspath(Directory)

\* FileHandler.is_safe_path
is_safe_path(filepath) == startswith(abspath(filepath), base_dir)

\* read_file: with open(filepath, 'rb') as f: return f.read(), True; any
\* exception: return None, False
read_opened(f) == [content |-> f.content, success |-> f.ok]

read_path(fs, filepath) ==
    IF ~is_safe_path(filepath) THEN [content |-> <<>>, success |-> FALSE]
    ELSE read_opened(open_rb(fs, filepath))

\* FileHandler.read_file: <<content, success>>
read_file(fs, filename) == read_path(fs, path_join(base_dir, filename))

write_opened(o) == [opened |-> o.ok, node |-> o.node, fs |-> o.fs]

\* write_file after os.makedirs returned md: an exception ends it with False
write_made(md, filepath) ==
    IF md.err # "" THEN [opened |-> FALSE, node |-> Root, fs |-> md.fs]
    ELSE write_opened(open_wb(md.fs, filepath))

write_path(fs, filepath) ==
    IF ~is_safe_path(filepath) THEN [opened |-> FALSE, node |-> Root, fs |-> fs]
    ELSE write_made(makedirs(fs, dirname(filepath)), filepath)

\* FileHandler.write_file up to and including open(filepath, 'wb'): the
\* safety check, os.makedirs and the open that truncates; opened is FALSE when
\* write_file returns False
write_file_open(fs, filename) == write_path(fs, path_join(base_dir, filename))

\* FileHandler.write_file from f.write(content) on: the write, and True
write_file_write(fs, node, content) == fd_write(fs, node, content)

(***************************************************************************)
(* class HTTPServer                                                        *)
(***************************************************************************)
\* the ten-byte gzip member header, written as its three fixed leading bytes
GzipHeader == <<"x1f", "x8b", "x08">>

\* the ISIZE field that ends a gzip member (the input length), written with
\* one decimal digit per byte
GzipTrailer(n) ==
    <<Digits[((n \div 1000) % 10) + 1], Digits[((n \div 100) % 10) + 1],
      Digits[((n \div 10) % 10) + 1], Digits[(n % 10) + 1]>>

\* HTTPServer.compress_content: gzip.compress(content) is a member header, the
\* deflate stream (here a stored block: the bytes themselves) and the trailer
compress_content(content) == GzipHeader \o content \o GzipTrailer(Len(content))

\* the body argument of make_response is a str, bytes or None
StrBody(text) == [kind |-> "str", value |-> text]

BytesBody(bytes) == [kind |-> "bytes", value |-> bytes]

\* make_response: None becomes b"", a str is encoded
body_bytes(body) ==
    IF body.kind = "none" THEN <<>>
    ELSE IF body.kind = "str" THEN encode(body.value)
    ELSE body.value

\* make_response from the headers list on, body being the bytes to transmit
build_response(status, body, content_type, use_gzip) ==
    encode(join(CRLF,
        <<<<"H","T","T","P","/","1",".","1"," ">> \o status, <<"C","o","n","t","e","n","t","-","T","y","p","e",":"," ">> \o content_type>>
        \o (IF use_gzip THEN <<<<"C","o","n","t","e","n","t","-","E","n","c","o","d","i","n","g",":"," ","g","z","i","p">>>> ELSE <<>>)
        \o <<<<"C","o","n","t","e","n","t","-","L","e","n","g","t","h",":"," ">> \o str(Len(body)), <<>>, <<>>>>))
    \o body

\* make_response taking Content-Length from the body before compression
make_response_plain_length(status, body, content_type, use_gzip) ==
    SliceTo(build_response(status, body_bytes(body), content_type, use_gzip),
            Len(build_response(status, body_bytes(body), content_type, use_gzip))
                - Len(body_bytes(body)))
    \o (IF use_gzip THEN compress_content(body_bytes(body)) ELSE body_bytes(body))

\* HTTPServer.make_response
make_response(status, body, content_type, use_gzip) ==
    build_response(status,
                   IF use_gzip THEN compress_content(body_bytes(body)) ELSE body_bytes(body),
                   content_type, use_gzip)

TextPlain == <<"t","e","x","t","/","p","l","a","i","n">>

\* make_response(status) with every default: body "", text/plain, no gzip
status_response(status) == make_response(status, StrBody(<<>>), TextPlain, FALSE)

BadRequest == status_response(<<"4","0","0"," ","B","a","d"," ","R","e","q","u","e","s","t">>)

NotFound == status_response(<<"4","0","4"," ","N","o","t"," ","F","o","u","n","d">>)

\* what a step of request handling yields: the response, the filesystem it
\* leaves and, when a file was opened for writing, the write still to be done
Responded(resp, fs) ==
    [resp |-> resp, fs |-> fs, writing |-> FALSE, node |-> Root, content |-> <<>>]

\* handle_file_request: if self.file_handler.write_file(filename, content), cut
\* before the f.write when the file was opened
file_write(w, content) ==
    IF w.opened
    THEN [resp |-> status_response(<<"2","0","1"," ","C","r","e","a","t","e","d">>), fs |-> w.fs,
          writing |-> TRUE, node |-> w.node, content |-> content]
    ELSE Responded(status_response(<<"5","0","0"," ","I","n","t","e","r","n","a","l"," ","S","e","r","v","e","r"," ","E","r","r","o","r">>), w.fs)

\* the POST branch without the test for a zero length
file_post_zero_accepted(request, fs, filename, content_length) ==
    IF ~content_length.ok THEN Responded(BadRequest, fs)
    ELSE file_write(write_file_open(fs, filename),
                    SliceTo(request.body, content_length.value))

\* handle_file_request: the POST branch, content_length being the int() of
\* the header
file_post(request, fs, filename, content_length) ==
    IF ~content_length.ok THEN Responded(BadRequest, fs)
    ELSE IF content_length.value = 0 THEN Responded(BadRequest, fs)
    ELSE file_write(write_file_open(fs, filename),
                    SliceTo(request.body, content_length.value))

\* handle_file_request: the GET branch, r being what read_file returned
file_get(r, supports_gzip, fs) ==
    IF r.success
    THEN Responded(make_response(<<"2","0","0"," ","O","K">>, BytesBody(r.content),
                                 <<"a","p","p","l","i","c","a","t","i","o","n","/","o","c","t","e","t","-","s","t","r","e","a","m">>, supports_gzip), fs)
    ELSE Responded(NotFound, fs)

\* handle_file_request treating every method other than GET as a POST
file_request_any_method_writes(request, fs, filename) ==
    IF filename = <<>> THEN Responded(BadRequest, fs)
    ELSE IF request.method = <<"G","E","T">>
    THEN file_get(read_file(fs, filename), accepts_gzip(request), fs)
    ELSE file_post(request, fs, filename,
                   int(dict_get(request.headers, <<"c","o","n","t","e","n","t","-","l","e","n","g","t","h">>, <<"0">>)))

\* handle_file_request testing the method before the empty file name
file_request_method_first(request, fs, filename) ==
    IF request.method = <<"P","O","S","T">>
    THEN file_post(request, fs, filename,
                   int(dict_get(request.headers, <<"c","o","n","t","e","n","t","-","l","e","n","g","t","h">>, <<"0">>)))
    ELSE IF request.method = <<"G","E","T">>
    THEN file_get(read_file(fs, filename), accepts_gzip(request), fs)
    ELSE IF filename = <<>> THEN Responded(BadRequest, fs)
    ELSE Responded(status_response(<<"4","0","5"," ","M","e","t","h","o","d"," ","N","o","t"," ","A","l","l","o","w","e","d">>), fs)

file_request(request, fs, filename) ==
    IF filename = <<>> THEN Responded(BadRequest, fs)
    ELSE IF request.method = <<"P","O","S","T">>
    THEN file_post(request, fs, filename,
                   int(dict_get(request.headers, <<"c","o","n","t","e","n","t","-","l","e","n","g","t","h">>, <<"0">>)))
    ELSE IF request.method = <<"G","E","T">>
    THEN file_get(read_file(fs, filename), accepts_gzip(request), fs)
    ELSE Responded(status_response(<<"4","0","5"," ","M","e","t","h","o","d"," ","N","o","t"," ","A","l","l","o","w","e","d">>), fs)

\* HTTPServer.handle_file_request up to the response or, for a POST whose
\* file was opened, up to the f.write that follows
handle_file_request(request, fs) == file_request(request, fs, Drop(request.path, 7))

\* handle_request testing the echo route by the prefix /echo, which comes
\* before the exact matches
dispatch_echo_without_slash(request, fs, supports_gzip) ==
    IF startswith(request.path, <<"/","f","i","l","e","s","/">>) THEN handle_file_request(request, fs)
    ELSE IF startswith(request.path, <<"/","e","c","h","o">>)
    THEN Responded(make_response(<<"2","0","0"," ","O","K">>, StrBody(Drop(request.path, 6)),
                                 TextPlain, supports_gzip), fs)
    ELSE IF request.path = <<"/">>
    THEN Responded(make_response(<<"2","0","0"," ","O","K">>, StrBody(<<"W","e","l","c","o","m","e"," ","t","o"," ","t","h","e"," ","r","o","o","t"," ","p","a","t","h","!">>),
                                 TextPlain, supports_gzip), fs)
    ELSE IF request.path = <<"/","u","s","e","r","-","a","g","e","n","t">>
    THEN Responded(make_response(<<"2","0","0"," ","O","K">>,
                       StrBody(dict_get(request.headers, <<"u","s","e","r","-","a","g","e","n","t">>,
                                        <<"M","i","s","s","i","n","g"," ","U","s","e","r","-","A","g","e","n","t">>)),
                       TextPlain, supports_gzip), fs)
    ELSE Responded(NotFound, fs)

\* handle_request once the request is parsed; no call in it raises, so the
\* except clause that answers 400 is never entered
dispatch(request, fs, supports_gzip) ==
    IF startswith(request.path, <<"/","f","i","l","e","s","/">>) THEN handle_file_request(request, fs)
    ELSE IF startswith(request.path, <<"/","e","c","h","o","/">>)
    THEN Responded(make_response(<<"2","0","0"," ","O","K">>, StrBody(Drop(request.path, 6)),
                                 TextPlain, supports_gzip), fs)
    ELSE IF request.path = <<"/">>
    THEN Responded(make_response(<<"2","0","0"," ","O","K">>, StrBody(<<"W","e","l","c","o","m","e"," ","t","o"," ","t","h","e"," ","r","o","o","t"," ","p","a","t","h","!">>),
                                 TextPlain, supports_gzip), fs)
    ELSE IF request.path = <<"/","u","s","e","r","-","a","g","e","n","t">>
    THEN Responded(make_response(<<"2","0","0"," ","O","K">>,
                       StrBody(dict_get(request.headers, <<"u","s","e","r","-","a","g","e","n","t">>,
                                        <<"M","i","s","s","i","n","g"," ","U","s","e","r","-","A","g","e","n","t">>)),
                       TextPlain, supports_gzip), fs)
    ELSE Responded(NotFound, fs)

parsed(request, fs) == dispatch(request, fs, accepts_gzip(request))

\* HTTPServer.handle_request
handle_request(raw_request, fs) == parsed(HTTPRequest(raw_request), fs)

(***************************************************************************)
(* The requests clients send.  Request builds the bytes of a request from  *)
(* its parts; the sets below are the byte strings a recv may return.       *)
(***************************************************************************)
Line(name, value) == name \o <<":"," ">> \o value

Request(method, target, lines, body) ==
    join(CRLF, <<method \o <<" ">> \o target \o <<" ","H","T","T","P","/","1",".","1">>>> \o lines) \o CRLF \o CRLF \o body

GET == <<"G","E","T">>

POST == <<"P","O","S","T">>

AcceptEncoding(v) == Line(<<"A","c","c","e","p","t","-","E","n","c","o","d","i","n","g">>, v)

ContentLength(v) == Line(<<"C","o","n","t","e","n","t","-","L","e","n","g","t","h">>, v)

\* one request per dispatch rule, and paths that match none
RoutePaths ==
    {<<"/">>, <<"/","e","c","h","o","/","a","b">>, <<"/","e","c","h","o","/">>, <<"/","e","c","h","o">>, <<"/","u","s","e","r","-","a","g","e","n","t">>, <<"/","u","s","e","r","-","a","g","e","n","t","/">>,
     <<"/","u","n","k","n","o","w","n","/","p","a","t","h">>, <<"/","f","i","l","e","s">>, <<"/","f","i","l","e","s","/">>, <<"/","e","c","h","o","/","f","i","l","e","s","/","f">>}

RouteRequests == {Request(GET, p, <<>>, <<>>) : p \in RoutePaths}

\* Accept-Encoding values with and without gzip as a token
AcceptEncodings ==
    {<<"g","z","i","p">>, <<"G","Z","i","p">>, <<"d","e","f","l","a","t","e",","," ","g","z","i","p">>, <<"g","z","i","p"," ",",","b","r">>, <<"b","r",",","\t","g","z","i","p"," ",","," ","d","e","f","l","a","t","e">>,
     <<"g","z","i","p","2">>, <<"x","-","g","z","i","p">>, <<"d","e","f","l","a","t","e">>, <<"g","z","i","p",";","q","=","1">>, <<>>}

GzipRequests ==
    {Request(GET, <<"/","e","c","h","o","/","a","b">>, <<AcceptEncoding(v)>>, <<>>) : v \in AcceptEncodings}
    \cup {Request(GET, p, <<AcceptEncoding(<<"g","z","i","p">>)>>, <<>>) :
            p \in {<<"/">>, <<"/","u","s","e","r","-","a","g","e","n","t">>, <<"/","u","n","k","n","o","w","n","/","p","a","t","h">>, <<"/","f","i","l","e","s","/","f">>, <<"/","f","i","l","e","s","/">>}}
    \cup {Request(GET, <<"/","e","c","h","o","/","a","b">>, <<<<"a","c","c","e","p","t","-","e","n","c","o","d","i","n","g"," ",":","g","z","i","p">>>>, <<>>),
          Request(GET, <<"/","e","c","h","o","/","a","b">>, <<AcceptEncoding(<<"g","z","i","p">>), <<"a","c","c","e","p","t","-","e","n","c","o","d","i","n","g",":"," ","b","r">>>>, <<>>),
          Request(GET, <<"/","e","c","h","o","/","a","b">>, <<AcceptEncoding(<<"b","r">>), <<"A","C","C","E","P","T","-","E","N","C","O","D","I","N","G",":"," ","g","z","i","p">>>>, <<>>),
          Request(POST, <<"/","f","i","l","e","s","/","f">>, <<AcceptEncoding(<<"g","z","i","p">>), ContentLength(<<"1">>)>>, <<"h">>),
          Request(<<"P","U","T">>, <<"/","f","i","l","e","s","/","f">>, <<AcceptEncoding(<<"g","z","i","p">>)>>, <<>>)}

UserAgentRequests ==
    {Request(GET, <<"/","u","s","e","r","-","a","g","e","n","t">>, <<<<"U","s","e","r","-","A","g","e","n","t",":"," ","c","u","r","l">>>>, <<>>),
     Request(GET, <<"/","u","s","e","r","-","a","g","e","n","t">>, <<<<"U","s","e","r","-","A","g","e","n","t",":"," ","a",":","b"," ">>, <<"H","o","s","t",":"," ","h">>>>, <<>>),
     Request(GET, <<"/","u","s","e","r","-","a","g","e","n","t">>, <<<<"U","s","e","r","-","A","g","e","n","t",":"," ","a">>, <<"u","s","e","r","-","a","g","e","n","t",":"," ","b">>>>, <<>>),
     Request(GET, <<"/","u","s","e","r","-","a","g","e","n","t">>, <<<<"U","s","e","r","-","A","g","e","n","t">>>>, <<>>),
     Request(GET, <<"/","u","s","e","r","-","a","g","e","n","t">>, <<<<"U","s","e","r","-","A","g","e","n","t",":">>>>, <<>>),
     Request(GET, <<"/","u","s","e","r","-","a","g","e","n","t">>, <<<<"U","s","e","r","-","A","g","e","n","t",":"," ","a">>, <<" ","U","S","E","R","-","a","g","e","n","t"," ",":"," ","b",":","c"," ">>, <<"U","s","e","r","-","A","g","e","n","t">>>>, <<>>)}

\* file names: inside the base directory, below a new directory, ending in
\* '/', below a regular file, and resolving outside the base directory
ReadNames ==
    {<<"f">>, <<"d","/","f">>, <<"d","/">>, <<"f","/","g">>, <<"n","/",".",".","/","f">>, <<".",".","/","b","x","/","f">>, <<".",".","/","b","x","/","k">>,
     <<".",".","/","e","/","p">>, <<"/","e","/","p">>, <<".",".">>}

WriteNames == {<<"f">>, <<"d","/","f">>, <<"d","/">>, <<"f","/","g">>, <<".",".","/","b","x","/","f">>, <<".",".","/","e","/","p">>, <<"/","e","/","p">>}

\* Content-Length lines paired with a body: absent, zero, non-numeric, exact,
\* shorter than the body, longer than the body, negative
LengthCases ==
    {<<<<>>, <<"h","i">>>>, <<<<ContentLength(<<"0">>)>>, <<"h","i">>>>,
     <<<<ContentLength(<<"x">>)>>, <<"h","i">>>>, <<<<ContentLength(<<>>)>>, <<"h","i">>>>,
     <<<<ContentLength(<<"2">>)>>, <<"h","i">>>>, <<<<ContentLength(<<"1">>)>>, <<"h","i">>>>,
     <<<<ContentLength(<<"5">>)>>, <<"h","i">>>>, <<<<ContentLength(<<"-","1">>)>>, <<"h","i">>>>,
     <<<<ContentLength(<<"2">>)>>, <<"xc3", "xa9">>>>,
     <<<<ContentLength(<<"1">>)>>, <<"xff">>>>}

FileRequests ==
    {Request(GET, <<"/","f","i","l","e","s","/">> \o n, <<>>, <<>>) : n \in ReadNames}
    \cup {Request(POST, <<"/","f","i","l","e","s","/">> \o n, <<ContentLength(<<"1">>)>>, <<"h">>) : n \in WriteNames}
    \cup {Request(POST, <<"/","f","i","l","e","s","/","f">>, lc[1], lc[2]) : lc \in LengthCases}
    \cup {Request(POST, <<"/","f","i","l","e","s","/">>, <<ContentLength(<<"1">>)>>, <<"h">>),
          Request(<<"P","U","T">>, <<"/","f","i","l","e","s","/","f">>, <<ContentLength(<<"1">>)>>, <<"h">>),
          Request(<<"D","E","L","E","T","E">>, <<"/","f","i","l","e","s","/">>, <<>>, <<>>)}

\* first lines that do not split into three tokens, and bytes that are not
\* UTF-8
MalformedRequests ==
    {<<>>, <<"G","E","T"," ","/">> \o CRLF \o CRLF, <<"G","E","T"," ","/"," ","H","T","T","P","/","1",".","1"," ","x">> \o CRLF \o CRLF,
     <<"P","O","S","T"," ","/","f","i","l","e","s","/","f">> \o CRLF \o AcceptEncoding(<<"g","z","i","p">>) \o CRLF \o CRLF \o <<"h">>,
     CRLF \o <<"G","E","T"," ","/"," ","H","T","T","P","/","1",".","1">> \o CRLF \o CRLF,
     <<"G","E","T"," ","/"," ","H","T","T","P","/","1",".","1">>, <<"xff">>, <<"G","E","T"," ","/","e","c","h","o","/">> \o <<"xc3">> \o <<" ","H","T","T","P","/","1",".","1">> \o CRLF \o CRLF}

Requests ==
    RouteRequests \cup GzipRequests \cup UserAgentRequests \cup FileRequests
    \cup MalformedRequests

\* the requests that connections open at the same time carry: two writes of
\* different lengths to one file, and a read of it
CoreRequests ==
    {Request(POST, <<"/","f","i","l","e","s","/","f">>, <<ContentLength(<<"2">>)>>, <<"h","i">>),
     Request(POST, <<"/","f","i","l","e","s","/","f">>, <<ContentLength(<<"1">>)>>, <<"x">>),
     Request(GET, <<"/","f","i","l","e","s","/","f">>, <<>>, <<>>)}

\* the filesystem the server starts on: the base directory /b (empty), the
\* sibling directory /bx with a file k, and /e with a file p
InitialFS ==
    [dirs |-> {Root, <<<<"b">>>>, <<<<"b","x">>>>, <<<<"e">>>>},
     files |-> (<<<<"b","x">>, <<"k">>>> :> <<"s">>) @@ (<<<<"e">>, <<"p">>>> :> <<"p","w">>)]

(***************************************************************************)
(* run_server and handle_client: one thread per accepted connection        *)
(***************************************************************************)
\* the number of connections the server has accepted and not yet forgotten
MaxConns == 2

Conns == 1..MaxConns

VARIABLES
    fs,        \* the filesystem: [dirs, files]
    pc,        \* pc[c]: where the handler thread of connection c stands
    got,       \* got[c]: what recv did: "nothing" yet, returned "bytes", or an "error"
    received,  \* received[c]: the bytes recv returned
    wr,        \* wr[c]: the file write_file has open and the bytes it will write
    response,  \* response[c]: the bytes handle_request returned
    nsent,     \* nsent[c]: how many responses sendall has written to the socket
    raised     \* raised[c]: the call whose exception leaves handle_client, or ""

vars == <<fs, pc, got, received, wr, response, nsent, raised>>

NoWrite == [node |-> Root, content |-> <<>>, resp |-> <<>>]

Init ==
    /\ fs = InitialFS
    /\ pc = [c \in Conns |-> "idle"]
    /\ got = [c \in Conns |-> "nothing"]
    /\ received = [c \in Conns |-> <<>>]
    /\ wr = [c \in Conns |-> NoWrite]
    /\ response = [c \in Conns |-> <<>>]
    /\ nsent = [c \in Conns |-> 0]
    /\ raised = [c \in Conns |-> ""]

\* run_server: sock.accept() and thread.start()
Accept(c) ==
    /\ pc[c] = "idle"
    /\ pc' = [pc EXCEPT ![c] = "recv"]
    /\ UNCHANGED <<fs, got, received, wr, response, nsent, raised>>

\* handle_client: client_socket.recv(BUFFER_SIZE).decode() with recv returning b;
\* a UnicodeDecodeError leaves the try block for the finally clause
Recv(c, b) ==
    /\ pc[c] = "recv"
    /\ got' = [got EXCEPT ![c] = "bytes"]
    /\ received' = [received EXCEPT ![c] = b]
    /\ IF decode(b).ok
       THEN pc' = [pc EXCEPT ![c] = "handle"] /\ raised' = raised
       ELSE pc' = [pc EXCEPT ![c] = "finally"] /\ raised' = [raised EXCEPT ![c] = "decode"]
    /\ UNCHANGED <<fs, wr, response, nsent>>

\* handle_client: recv itself raises (the peer reset the connection)
RecvError(c) ==
    /\ pc[c] = "recv"
    /\ got' = [got EXCEPT ![c] = "error"]
    /\ pc' = [pc EXCEPT ![c] = "finally"]
    /\ raised' = [raised EXCEPT ![c] = "recv"]
    /\ UNCHANGED <<fs, received, wr, response, nsent>>

\* the text handle_client passes to handle_request
request_data(c) == decode(received[c]).text

\* Handle with o being what handle_request yields
Handled(c, o) ==
    /\ fs' = o.fs
    /\ IF o.writing
       THEN /\ wr' = [wr EXCEPT ![c] = [node |-> o.node, content |-> o.content,
                                       resp |-> o.resp]]
            /\ pc' = [pc EXCEPT ![c] = "write"]
            /\ response' = response
       ELSE /\ response' = [response EXCEPT ![c] = o.resp]
            /\ pc' = [pc EXCEPT ![c] = "send"]
            /\ wr' = wr
    /\ UNCHANGED <<got, received, nsent, raised>>

\* handle_client: server.handle_request(request_data), up to its return or, for
\* a POST that opened its file, up to the f.write that other threads can precede
Handle(c) == pc[c] = "handle" /\ Handled(c, handle_request(request_data(c), fs))

\* write_file: f.write(content), the close of the file, and the return of the
\* 201 response through handle_file_request and handle_request
Write(c) ==
    /\ pc[c] = "write"
    /\ fs' = write_file_write(fs, wr[c].node, wr[c].content)
    /\ response' = [response EXCEPT ![c] = wr[c].resp]
    /\ wr' = [wr EXCEPT ![c] = NoWrite]
    /\ pc' = [pc EXCEPT ![c] = "send"]
    /\ UNCHANGED <<got, received, nsent, raised>>

\* a sendall after which the handler stays where it can send again
Send_repeating(c) ==
    /\ pc[c] = "send"
    /\ nsent' = [nsent EXCEPT ![c] = @ + 1]
    /\ UNCHANGED <<fs, pc, got, received, wr, response, raised>>

\* handle_client: client_socket.sendall(response)
Send(c) ==
    /\ pc[c] = "send"
    /\ nsent' = [nsent EXCEPT ![c] = @ + 1]
    /\ pc' = [pc EXCEPT ![c] = "finally"]
    /\ UNCHANGED <<fs, got, received, wr, response, raised>>

\* a sendall whose exception ends the thread with no finally clause: the
\* socket is never closed
SendError_unclosed(c) ==
    /\ pc[c] = "send"
    /\ raised' = [raised EXCEPT ![c] = "sendall"]
    /\ pc' = [pc EXCEPT ![c] = "idle"]
    /\ UNCHANGED <<fs, got, received, wr, response, nsent>>

\* handle_client: sendall raises (the peer is gone)
SendError(c) ==
    /\ pc[c] = "send"
    /\ raised' = [raised EXCEPT ![c] = "sendall"]
    /\ pc' = [pc EXCEPT ![c] = "finally"]
    /\ UNCHANGED <<fs, got, received, wr, response, nsent>>

\* handle_client: finally: client_socket.close(); the request and the
\* response go out of scope
Close(c) ==
    /\ pc[c] = "finally"
    /\ pc' = [pc EXCEPT ![c] = "closed"]
    /\ received' = [received EXCEPT ![c] = <<>>]
    /\ response' = [response EXCEPT ![c] = <<>>]
    /\ UNCHANGED <<fs, got, wr, nsent, raised>>

\* the thread of a closed connection ends and the connection is forgotten
ThreadExit(c) ==
    /\ pc[c] = "closed"
    /\ pc' = [pc EXCEPT ![c] = "idle"]
    /\ got' = [got EXCEPT ![c] = "nothing"]
    /\ nsent' = [nsent EXCEPT ![c] = 0]
    /\ raised' = [raised EXCEPT ![c] = ""]
    /\ UNCHANGED <<fs, received, wr, response>>

\* the steps of the handler thread of connection c once it has its bytes
Thread(c) ==
    \/ Handle(c)
    \/ Write(c)
    \/ Send(c)
    \/ SendError(c)
    \/ Close(c)
    \/ ThreadExit(c)

\* Spec: clients connect one after another (a connection is accepted when no
\* other is known to the server) and send any of Requests
AcceptNext(c) == (\A d \in Conns \ {c} : pc[d] = "idle") /\ Accept(c)

Next ==
    \E c \in Conns :
        \/ AcceptNext(c)
        \/ \E b \in Requests : Recv(c, b)
        \/ RecvError(c)
        \/ Thread(c)

Spec == Init /\ [][Next]_vars

\* Spec with the scheduler running every handler thread that can take a step:
\* a thread that has its bytes is not starved (recv alone waits on the client).
\* Handle(c) is enabled exactly when pc[c] = "handle" and a Handle(c) step
\* leaves that state, so WF_vars(Handle(c)) is []<>(pc[c] # "handle"), and it
\* is stated in that form.
FairSpec ==
    /\ Spec
    /\ \A c \in Conns :
           /\ []<>(pc[c] # "handle")
           /\ WF_vars(Write(c) \/ Send(c) \/ SendError(c) \/ Close(c) \/ ThreadExit(c))

\* SpecConcurrent: up to MaxConns connections are open at once, their threads
\* interleave in any order, and each carries one of CoreRequests
NextConcurrent ==
    \E c \in Conns :
        \/ Accept(c)
        \/ \E b \in CoreRequests : Recv(c, b)
        \/ RecvError(c)
        \/ Thread(c)

SpecConcurrent == Init /\ [][NextConcurrent]_vars

(***************************************************************************)
(* What a client sees of a response, and what the claims say of a request  *)
(***************************************************************************)
\* the response bytes up to the first blank line, and after it
ResponseHead(resp) == split1(resp, CRLF \o CRLF)[1]

ResponseBody(resp) == split1(resp, CRLF \o CRLF)[2]

\* the status code and reason phrase of the status line "HTTP/1.1 <status>"
Status(resp) == Drop(split(ResponseHead(resp), CRLF)[1], 9)

\* the values of the header lines of resp named name (lower case), in order
HeaderValues(resp, name) ==
    LET lines == Tail(split(ResponseHead(resp), CRLF))
        Named(line) == lower(strip(split1(line, <<":">>)[1])) = name
        named == SelectSeq(lines, Named)
    IN  IF named = <<>> THEN <<>>
        ELSE [i \in 1..Len(named) |-> strip(split1(named[i], <<":">>)[2])]

\* gzip.decompress as a client applies it: the member header and the ISIZE
\* trailer are checked and the bytes between them are returned
gunzip(b) ==
    IF /\ Len(b) >= 7
       /\ Take(b, 3) = GzipHeader
       /\ SubSeq(b, Len(b) - 3, Len(b)) = GzipTrailer(Len(b) - 7)
    THEN [ok |-> TRUE, content |-> SubSeq(b, 4, Len(b) - 4)]
    ELSE [ok |-> FALSE, content |-> <<>>]

IsGzipped(resp) == HeaderValues(resp, <<"c","o","n","t","e","n","t","-","e","n","c","o","d","i","n","g">>) = <<<<"g","z","i","p">>>>

\* the body of resp with its content encoding undone
Content(resp) ==
    IF IsGzipped(resp) THEN gunzip(ResponseBody(resp)).content ELSE ResponseBody(resp)

\* handle_request has returned a response on connection c
HasResponse(c) == response[c] # <<>>

\* the request connection c carries, as the server parsed it
Req(c) == HTTPRequest(request_data(c))

\* the first line of the text on c splits into exactly three tokens
WellFormed(c) == Len(split_ws(split(split1(request_data(c), CRLF \o CRLF)[1], CRLF)[1])) = 3

\* c carries a request for /files/<name>, and the name
IsFileRequest(c) == startswith(Req(c).path, <<"/","f","i","l","e","s","/">>)

FileName(c) == Drop(Req(c).path, 7)

\* the names of the directories and the file that path names once '.', '..'
\* and empty segments are removed
Components(path) == norm_comps(split(path, SEP), <<>>)

\* path resolves to a location strictly below the base directory
InsideBase(path) ==
    LET b == Components(base_dir)
        p == Components(path)
    IN  Len(p) > Len(b) /\ SubSeq(p, 1, Len(b)) = b

\* the node base/name resolves to
Target(name) == Components(path_join(base_dir, name))

\* gzip is one of the comma-separated tokens of the Accept-Encoding value the
\* request carries (trimmed, any letter case); FALSE when it carries none
HasGzipToken(c) ==
    LET v == dict_get(Req(c).headers, <<"a","c","c","e","p","t","-","e","n","c","o","d","i","n","g">>, <<>>)
        tokens == split(v, <<",">>)
    IN  <<"g","z","i","p">> \in {lower(strip(tokens[i])) : i \in 1..Len(tokens)}

\* the content the route of the request on c answers with when it answers 200
ExpectedContent(c) ==
    LET path == Req(c).path
    IN  IF startswith(path, <<"/","f","i","l","e","s","/">>) THEN open_rb(fs, path_join(base_dir, FileName(c))).content
        ELSE IF startswith(path, <<"/","e","c","h","o","/">>) THEN encode(Drop(path, 6))
        ELSE IF path = <<"/">> THEN <<"W","e","l","c","o","m","e"," ","t","o"," ","t","h","e"," ","r","o","o","t"," ","p","a","t","h","!">>
        ELSE IF path = <<"/","u","s","e","r","-","a","g","e","n","t">>
        THEN encode(dict_get(Req(c).headers, <<"u","s","e","r","-","a","g","e","n","t">>, <<"M","i","s","s","i","n","g"," ","U","s","e","r","-","A","g","e","n","t">>))
        ELSE <<>>

OK200 == <<"2","0","0"," ","O","K">>

Created201 == <<"2","0","1"," ","C","r","e","a","t","e","d">>

BadRequest400 == <<"4","0","0"," ","B","a","d"," ","R","e","q","u","e","s","t">>

NotFound404 == <<"4","0","4"," ","N","o","t"," ","F","o","u","n","d">>

(***************************************************************************)
(* Claims                                                                  *)
(***************************************************************************)

\* C1: a request for /files/<name> whose name resolves outside the base
\* directory is never answered 200 (GET) or 201 (POST), and nothing outside the
\* base directory is ever created or changed.
C1_EscapeRejected ==
    /\ \A c \in Conns :
           (HasResponse(c) /\ IsFileRequest(c) /\ FileName(c) # <<>>
               /\ ~InsideBase(path_join(base_dir, FileName(c))))
           => Status(response[c]) \notin {OK200, Created201}
    /\ \A d \in fs.dirs : d \in InitialFS.dirs \/ InsideBase(SEP \o join(SEP, d))
    /\ \A f \in DOMAIN fs.files :
           \/ InsideBase(SEP \o join(SEP, f))
           \/ (f \in DOMAIN InitialFS.files /\ fs.files[f] = InitialFS.files[f])

\* the bodies the round trip is tried with: ASCII, U+00E9 in UTF-8, and the
\* byte 0xff
RoundTripBodies == {<<"h">>, <<"h","i">>, <<"xc3", "xa9">>, <<"xff">>}

\* C2: a POST /files/<n> of a non-empty body with Content-Length equal to its
\* byte length is answered 201, and read(n) then returns exactly that body
\* (stated for the names f and d/f, which lie inside the base directory).
C2_RoundTrip ==
    \A c \in Conns : \A n \in {<<"f">>, <<"d","/","f">>} : \A body \in RoundTripBodies :
        (/\ pc[c] = "finally"
         /\ raised[c] # "sendall"
         /\ received[c] = Request(POST, <<"/","f","i","l","e","s","/">> \o n,
                                  <<ContentLength(str(Len(body)))>>, body))
        => /\ nsent[c] = 1
           /\ Status(response[c]) = Created201
           /\ read_file(fs, n) = [content |-> body, success |-> TRUE]

\* C3: every response carries exactly one Content-Length header, whose value
\* is the decimal byte length of the body that follows the blank line.
C3_ContentLength ==
    \A c \in Conns :
        HasResponse(c) =>
            HeaderValues(response[c], <<"c","o","n","t","e","n","t","-","l","e","n","g","t","h">>)
                = <<str(Len(ResponseBody(response[c])))>>

\* a gzip-encoded 200 response, whose transmitted body is not its content
C3_Witness ==
    \E c \in Conns :
        /\ HasResponse(c)
        /\ Status(response[c]) = OK200
        /\ IsGzipped(response[c])
        /\ Len(ResponseBody(response[c])) # Len(Content(response[c]))
        /\ Content(response[c]) # <<>>

\* C4 as stated: whenever the request has gzip as an Accept-Encoding token the
\* response is gzip-encoded, whatever the route and the status.
C4_GzipWhenever ==
    \A c \in Conns :
        (HasResponse(c) /\ HasGzipToken(c))
        => (IsGzipped(response[c]) /\ gunzip(ResponseBody(response[c])).ok)

\* C4 as amended: a response with status 200 to a request that has gzip as an
\* Accept-Encoding token carries Content-Encoding: gzip and its body
\* decompresses to the content of the route; a response with any other status
\* is not gzip-encoded.
C4_GzipOn200 ==
    \A c \in Conns :
        HasResponse(c) =>
            /\ (HasGzipToken(c) /\ Status(response[c]) = OK200)
               => /\ IsGzipped(response[c])
                  /\ gunzip(ResponseBody(response[c])).ok
                  /\ gunzip(ResponseBody(response[c])).content = ExpectedContent(c)
            /\ Status(response[c]) # OK200 => ~IsGzipped(response[c])

\* gzip after another token and in mixed case, answered 200 with gzip
C4_Witness ==
    \E c \in Conns :
        /\ HasResponse(c)
        /\ dict_get(Req(c).headers, <<"a","c","c","e","p","t","-","e","n","c","o","d","i","n","g">>, <<>>) \in {<<"d","e","f","l","a","t","e",","," ","g","z","i","p">>, <<"G","Z","i","p">>}
        /\ Status(response[c]) = OK200
        /\ IsGzipped(response[c])

\* C5: a response to a request without gzip as an Accept-Encoding token has no
\* Content-Encoding header and its body is the uncompressed content (empty
\* unless the status is 200).
C5_NoGzipWithoutToken ==
    \A c \in Conns :
        (HasResponse(c) /\ ~HasGzipToken(c))
        => /\ HeaderValues(response[c], <<"c","o","n","t","e","n","t","-","e","n","c","o","d","i","n","g">>) = <<>>
           /\ ResponseBody(response[c])
                = (IF Status(response[c]) = OK200 THEN ExpectedContent(c) ELSE <<>>)

\* an Accept-Encoding of gzip2 or x-gzip, answered 200 with the plain content
C5_Witness ==
    \E c \in Conns :
        /\ HasResponse(c)
        /\ dict_get(Req(c).headers, <<"a","c","c","e","p","t","-","e","n","c","o","d","i","n","g">>, <<>>) \in {<<"g","z","i","p","2">>, <<"x","-","g","z","i","p">>}
        /\ Status(response[c]) = OK200
        /\ ResponseBody(response[c]) = <<"a","b">>

\* C6: a request whose first line does not split into method, path and
\* version is answered 400 Bad Request.
C6_MalformedIs400 ==
    \A c \in Conns :
        (HasResponse(c) /\ ~WellFormed(c)) => Status(response[c]) = BadRequest400

\* C7: a connection whose read returned bytes is closed only after exactly
\* one response was written to it, and no exception leaves its handler (a
\* failing sendall, which no handler can answer, is left aside).
C7_AlwaysAnswered ==
    \A c \in Conns :
        (pc[c] = "closed" /\ got[c] = "bytes" /\ raised[c] # "sendall")
        => (nsent[c] = 1 /\ raised[c] = "")

\* C8: the response follows the first rule the path matches: /files/ prefix
\* (the file handler's statuses), /echo/ prefix (200, the rest of the path),
\* exactly / (200, the welcome text), exactly /user-agent (200), and 404 with
\* an empty body for every other path.
C8_Dispatch ==
    \A c \in Conns :
        HasResponse(c) =>
            LET path == Req(c).path
                st == Status(response[c])
            IN  IF startswith(path, <<"/","f","i","l","e","s","/">>)
                THEN /\ FileName(c) = <<>> => st = BadRequest400
                     /\ (FileName(c) # <<>> /\ Req(c).method = GET) => st \in {OK200, NotFound404}
                     /\ (FileName(c) # <<>> /\ Req(c).method = POST)
                        => st \in {Created201, BadRequest400, <<"5","0","0"," ","I","n","t","e","r","n","a","l"," ","S","e","r","v","e","r"," ","E","r","r","o","r">>}
                     /\ (FileName(c) # <<>> /\ Req(c).method \notin {GET, POST})
                        => st = <<"4","0","5"," ","M","e","t","h","o","d"," ","N","o","t"," ","A","l","l","o","w","e","d">>
                ELSE IF startswith(path, <<"/","e","c","h","o","/">>)
                THEN st = OK200 /\ Content(response[c]) = encode(Drop(path, 6))
                ELSE IF path = <<"/">>
                THEN st = OK200 /\ Content(response[c]) = <<"W","e","l","c","o","m","e"," ","t","o"," ","t","h","e"," ","r","o","o","t"," ","p","a","t","h","!">>
                ELSE IF path = <<"/","u","s","e","r","-","a","g","e","n","t">>
                THEN st = OK200
                ELSE st = NotFound404 /\ ResponseBody(response[c]) = <<>>

\* paths that match no rule although a rule's text is a prefix of them or they
\* of it: /echo, /files and /user-agent/ are answered 404
C8_Witness ==
    \E c \in Conns :
        /\ HasResponse(c)
        /\ Req(c).path \in {<<"/","e","c","h","o">>, <<"/","f","i","l","e","s">>, <<"/","u","s","e","r","-","a","g","e","n","t","/">>}
        /\ Status(response[c]) = NotFound404

\* the Content-Length header of the request on c, as the claims read it
HasLength(c) ==
    \E i \in 1..Len(Req(c).headers) : Req(c).headers[i][1] = <<"c","o","n","t","e","n","t","-","l","e","n","g","t","h">>

LengthDigits(c) ==
    LET v == dict_get(Req(c).headers, <<"c","o","n","t","e","n","t","-","l","e","n","g","t","h">>, <<>>)
    IN  IF v # <<>> /\ v[1] \in {"+", "-"} THEN Tail(v) ELSE v

LengthIsNumeric(c) ==
    /\ LengthDigits(c) # <<>>
    /\ \A i \in 1..Len(LengthDigits(c)) :
           LengthDigits(c)[i] \in {"0", "1", "2", "3", "4", "5", "6", "7", "8", "9"}

LengthIsZero(c) ==
    LengthIsNumeric(c) /\ \A i \in 1..Len(LengthDigits(c)) : LengthDigits(c)[i] = "0"

IsFilePost(c) == IsFileRequest(c) /\ FileName(c) # <<>> /\ Req(c).method = POST

\* C9: handling a POST /files/<name> whose Content-Length is missing, zero or
\* not a number yields 400 Bad Request, opens no file and leaves the
\* filesystem as it was.
C9_BadLengthRejected ==
    [][\A c \in Conns :
          (/\ pc[c] = "handle" /\ pc'[c] # "handle"
           /\ IsFilePost(c)
           /\ (~HasLength(c) \/ ~LengthIsNumeric(c) \/ LengthIsZero(c)))
          => (/\ pc'[c] = "send"
              /\ Status(response'[c]) = BadRequest400
              /\ fs' = fs)]_vars

\* a POST /files/<name> with a non-numeric, a zero and a missing Content-Length
\* has been answered 400
C9_Witness ==
    \E c \in Conns :
        /\ HasResponse(c)
        /\ IsFilePost(c)
        /\ HasLength(c) /\ LengthIsZero(c)
        /\ Status(response[c]) = BadRequest400

\* C10: a GET /files/<name> is answered 200 with Content-Type
\* application/octet-stream and the file's bytes exactly when the name
\* resolves inside the base directory and the file can be read, and 404
\* otherwise.
C10_GetFile ==
    \A c \in Conns :
        (HasResponse(c) /\ IsFileRequest(c) /\ FileName(c) # <<>> /\ Req(c).method = GET)
        => LET filepath == path_join(base_dir, FileName(c))
               f == open_rb(fs, filepath)
           IN  IF InsideBase(filepath) /\ f.ok
               THEN /\ Status(response[c]) = OK200
                    /\ HeaderValues(response[c], <<"c","o","n","t","e","n","t","-","t","y","p","e">>)
                         = <<<<"a","p","p","l","i","c","a","t","i","o","n","/","o","c","t","e","t","-","s","t","r","e","a","m">>>>
                    /\ Content(response[c]) = f.content
               ELSE Status(response[c]) = NotFound404

MethodNotAllowed405 == <<"4","0","5"," ","M","e","t","h","o","d"," ","N","o","t"," ","A","l","l","o","w","e","d">>

\* C11: handling a request for /files/ with an empty file name yields 400
\* whatever the method, and one with a file name and a method other than GET
\* and POST yields 405; either way the filesystem stays as it was and no file
\* is left open for writing.
C11_EmptyNameAndMethod ==
    [][\A c \in Conns :
          (pc[c] = "handle" /\ pc'[c] # "handle" /\ IsFileRequest(c))
          => /\ FileName(c) = <<>>
                => (/\ pc'[c] = "send"
                    /\ Status(response'[c]) = BadRequest400
                    /\ fs' = fs)
             /\ (FileName(c) # <<>> /\ Req(c).method \notin {GET, POST})
                => (/\ pc'[c] = "send"
                    /\ Status(response'[c]) = MethodNotAllowed405
                    /\ fs' = fs)]_vars

\* a POST with a usable Content-Length and an empty file name has been
\* answered 400, and no file or directory was made for it
C11_Witness ==
    \E c \in Conns :
        /\ HasResponse(c)
        /\ IsFileRequest(c) /\ FileName(c) = <<>>
        /\ Req(c).method = POST
        /\ HasLength(c) /\ LengthIsNumeric(c) /\ ~LengthIsZero(c)
        /\ Status(response[c]) = BadRequest400
        /\ fs = InitialFS

\* C12: once the read of a connection has returned or failed, the connection
\* is eventually closed, whatever raised on the way, and a handler thread ends
\* only from the state in which its connection is closed.
C12_AlwaysClosed ==
    /\ \A c \in Conns : (got[c] # "nothing") ~> (pc[c] = "closed")
    /\ [][\A c \in Conns : (pc[c] # "idle" /\ pc'[c] = "idle") => pc[c] = "closed"]_vars

\* a connection closed after its sendall raised, one after its read raised
\* and one after its bytes failed to decode
C12_Witness ==
    \E c \in Conns : pc[c] = "closed" /\ raised[c] = "sendall" /\ nsent[c] = 0

\* the integer a numeric Content-Length on c denotes
LengthValue(c) ==
    LET v == dict_get(Req(c).headers, <<"c","o","n","t","e","n","t","-","l","e","n","g","t","h">>, <<>>)
    IN  IF v[1] = "-" THEN 0 - DecimalValue(LengthDigits(c)) ELSE DecimalValue(LengthDigits(c))

\* C13: after a POST /files/<name> with a name inside the base directory and
\* a numeric non-zero Content-Length L is answered 201, the stored file is
\* exactly L bytes long.
C13_ExactLength ==
    \A c \in Conns :
        (/\ HasResponse(c)
         /\ IsFilePost(c)
         /\ InsideBase(path_join(base_dir, FileName(c)))
         /\ HasLength(c) /\ LengthIsNumeric(c) /\ ~LengthIsZero(c)
         /\ Status(response[c]) = Created201)
        => /\ Target(FileName(c)) \in DOMAIN fs.files
           /\ Len(fs.files[Target(FileName(c))]) = LengthValue(c)

\* the order of the steps of one connection: accept, the read, the dispatch
\* (with the file write it may end in), the write of the response, close, and
\* the end of the thread; a raise goes to close
StepOrder ==
    {<<"idle", "recv">>, <<"recv", "handle">>, <<"recv", "finally">>,
     <<"handle", "write">>, <<"handle", "send">>, <<"write", "send">>,
     <<"send", "finally">>, <<"finally", "closed">>, <<"closed", "idle">>}

\* C14: under any interleaving of the handlers, the steps of one connection
\* follow the order read, dispatch, write, close, each at most once: the read
\* result is set once and only by the read, the response is produced once and
\* only by the dispatch, it is sent at most once, only after the read returned
\* bytes and only by the write step, and a closed connection is not read,
\* answered or written again.
C14_Sequential ==
    [][\A c \in Conns :
          /\ pc'[c] # pc[c] => <<pc[c], pc'[c]>> \in StepOrder
          /\ (got'[c] # got[c] /\ pc[c] # "closed")
             => (pc[c] = "recv" /\ got[c] = "nothing")
          /\ (response'[c] # response[c] /\ pc[c] # "finally")
             => (pc[c] \in {"handle", "write"} /\ response[c] = <<>> /\ pc'[c] = "send")
          /\ nsent'[c] > nsent[c]
             => (pc[c] = "send" /\ nsent[c] = 0 /\ nsent'[c] = 1
                 /\ got[c] = "bytes" /\ response[c] # <<>>)
          /\ pc[c] = "closed"
             => (received'[c] = received[c] /\ response'[c] = response[c]
                 /\ nsent'[c] <= nsent[c])]_vars

\* two handlers are in flight together, each between opening its file and
\* writing it
C14_Witness ==
    \E c \in Conns : \E d \in Conns \ {c} : pc[c] = "write" /\ pc[d] = "write"

\* C15: a request whose first line does not split into exactly three tokens
\* is parsed to nothing (method, path, headers and body all as constructed),
\* and is answered 404 with an empty body and no Content-Encoding.
C15_SilentParseFailure ==
    \A c \in Conns :
        (HasResponse(c) /\ ~WellFormed(c))
        => /\ Req(c) = EmptyRequest
           /\ EmptyRequest = [method |-> <<>>, path |-> <<>>, headers |-> <<>>, body |-> <<>>]
           /\ Status(response[c]) = NotFound404
           /\ ResponseBody(response[c]) = <<>>
           /\ HeaderValues(response[c], <<"c","o","n","t","e","n","t","-","e","n","c","o","d","i","n","g">>) = <<>>

\* a two-token first line followed by an Accept-Encoding: gzip line and a
\* body has been answered
C15_Witness ==
    \E c \in Conns :
        /\ HasResponse(c)
        /\ ~WellFormed(c)
        /\ contains(request_data(c), <<"A","c","c","e","p","t","-","E","n","c","o","d","i","n","g",":"," ","g","z","i","p">>)
        /\ startswith(request_data(c), <<"P","O","S","T"," ","/","f","i","l","e","s","/","f">>)
        /\ Status(response[c]) = NotFound404

\* the header lines of the request text on c (those after the first line that
\* contain ':') whose name, trimmed and lower-cased, is name
LinesNamed(c, name) ==
    LET lines == Tail(split(split1(request_data(c), CRLF \o CRLF)[1], CRLF))
        Named(line) == /\ \E i \in 1..Len(line) : line[i] = ":"
                       /\ lower(strip(split1(line, <<":">>)[1])) = name
    IN  SelectSeq(lines, Named)

\* the value of a header line: what follows its first ':', trimmed
LineValue(line) == strip(split1(line, <<":">>)[2])

\* C16: the parsed headers have one entry per trimmed lower-cased name, whose
\* value is the trimmed value of the last line of that name; and a request for
\* /user-agent is answered 200 with the value of its last User-Agent line, or
\* with "Missing User-Agent" when it has no such line.
C16_LastHeaderWins ==
    \A c \in Conns :
        (HasResponse(c) /\ WellFormed(c))
        => LET h == Req(c).headers
               ua == LinesNamed(c, <<"u","s","e","r","-","a","g","e","n","t">>)
           IN  /\ \A i, j \in 1..Len(h) : h[i][1] = h[j][1] => i = j
               /\ \A i \in 1..Len(h) :
                      /\ h[i][1] = lower(strip(h[i][1]))
                      /\ LinesNamed(c, h[i][1]) # <<>>
                      /\ h[i][2] = LineValue(LinesNamed(c, h[i][1])[Len(LinesNamed(c, h[i][1]))])
               /\ Req(c).path = <<"/","u","s","e","r","-","a","g","e","n","t">>
                  => /\ Status(response[c]) = OK200
                     /\ Content(response[c])
                          = encode(IF ua = <<>> THEN <<"M","i","s","s","i","n","g"," ","U","s","e","r","-","A","g","e","n","t">>
                                   ELSE LineValue(ua[Len(ua)]))

\* two User-Agent lines in different letter case, the last with ':' in its
\* value, followed by a line without ':': the answer is the last value
C16_Witness ==
    \E c \in Conns :
        /\ HasResponse(c)
        /\ Req(c).path = <<"/","u","s","e","r","-","a","g","e","n","t">>
        /\ Len(LinesNamed(c, <<"u","s","e","r","-","a","g","e","n","t">>)) = 2
        /\ Content(response[c]) = <<"b",":","c">>

\* the node and the content of each POST that connections open together
\* carry: the first Content-Length bytes of its body
PostWrites ==
    {<<Target(Drop(HTTPRequest(decode(r).text).path, 7)),
       SliceTo(HTTPRequest(decode(r).text).body,
               int(dict_get(HTTPRequest(decode(r).text).headers,
                            <<"c","o","n","t","e","n","t","-","l","e","n","g","t","h">>, <<"0">>)).value)>> :
        r \in {q \in CoreRequests :
                 /\ HTTPRequest(decode(q).text).method = POST
                 /\ startswith(HTTPRequest(decode(q).text).path, <<"/","f","i","l","e","s","/">>)}}

\* the contents a single write gives the file at node: what it holds at the
\* start, and the content of each of those POSTs to it
SingleWrites(node) ==
    (IF node \in DOMAIN InitialFS.files THEN {InitialFS.files[node]} ELSE {})
    \cup {w[2] : w \in {x \in PostWrites : x[1] = node}}

\* no handler stands between opening the file at node and writing it
NoWritePending(node) == \A d \in Conns : ~(pc[d] = "write" /\ wr[d].node = node)

\* b has at each offset a byte that some single write has at that offset
IsMix(b, W) == \A i \in 1..Len(b) : \E w \in W : Len(w) >= i /\ w[i] = b[i]

\* b is a content FilesHold allows the file at node: one of its single
\* writes, or (mixed) a byte-wise mix of them, the empty file included
IsAllowed(b, node, mixed) ==
    IF mixed THEN IsMix(b, SingleWrites(node)) ELSE b \in SingleWrites(node)

\* every file holds an allowed content whenever no write to it is pending
\* (at any time, when mixes are allowed), and every 200 response to a GET
\* /files/n in hand carries an allowed content of n's node
FilesHold(mixed) ==
    /\ \A node \in DOMAIN fs.files :
           (mixed \/ NoWritePending(node)) => IsAllowed(fs.files[node], node, mixed)
    /\ \A c \in Conns :
           (HasResponse(c) /\ Status(response[c]) = OK200)
           => LET request == Req(c)
              IN  (startswith(request.path, <<"/","f","i","l","e","s","/">>) /\ request.method = GET)
                  => IsAllowed(Content(response[c]), Target(Drop(request.path, 7)), mixed)

\* C17 as stated: under any interleaving a 200 response to GET /files/n
\* carries the complete content of a single write to n, and once no write to
\* n is pending (its POSTs have written) the file holds the full content of
\* one of them.
C17_AtomicFiles == FilesHold(FALSE)

\* handlers do not overlap: at most one connection is open
OneAtATime == \A c \in Conns : \A d \in Conns \ {c} : pc[c] = "idle" \/ pc[d] = "idle"

\* C17 as amended: under any interleaving what a GET /files/n answered 200
\* carries, and what a file holds, is a byte-wise mix of single writes
\* (possibly empty); and it is the complete content of a single write
\* throughout every run in which the handlers never overlap.
C17_MixedUnlessSequential ==
    /\ []FilesHold(TRUE)
    /\ ([]OneAtATime => []FilesHold(FALSE))

\* a GET answered 200 with the first byte of one POST and the second of the
\* other
C17_Witness ==
    \E c \in Conns :
        /\ HasResponse(c) /\ IsFileRequest(c) /\ Req(c).method = GET
        /\ Status(response[c]) = OK200
        /\ Content(response[c]) = <<"x","i">>
        /\ <<"x","i">> \notin SingleWrites(Target(FileName(c)))

\* C18: handling a POST /files/<name> that is answered with a status other
\* than 201 leaves the filesystem exactly as it was.
C18_FailedPostNoEffect ==
    [][\A c \in Conns :
          (/\ pc[c] = "handle" /\ pc'[c] = "send"
           /\ IsFilePost(c)
           /\ Status(response'[c]) # Created201)
          => fs' = fs]_vars

\* the request on c is a POST to a /files/ path
IsPostToFiles(c) == Req(c).method = POST /\ startswith(Req(c).path, <<"/","f","i","l","e","s","/">>)

\* C19: the filesystem changes only in the steps that handle a POST to a
\* /files/ path (the dispatch and the file write it ends in); the handling of
\* any other request leaves the filesystem as it was and opens no file for
\* writing.
C19_OnlyPostWrites ==
    [][/\ fs' # fs
          => \E c \in Conns :
                 /\ pc[c] \in {"handle", "write"} /\ pc'[c] # pc[c]
                 /\ IsPostToFiles(c)
       /\ \A c \in Conns :
              (pc[c] = "handle" /\ pc'[c] # "handle" /\ ~IsPostToFiles(c))
              => (fs' = fs /\ pc'[c] = "send" /\ wr' = wr)]_vars

\* a PUT to /files/f with a Content-Length and a body has been answered, and
\* there is no file f
C19_Witness ==
    \E c \in Conns :
        /\ HasResponse(c)
        /\ IsFileRequest(c) /\ Req(c).method = <<"P","U","T">>
        /\ HasLength(c) /\ Req(c).body # <<>>
        /\ Target(FileName(c)) \notin DOMAIN fs.files

====
